---------------------------- MODULE Spec2Model ----------------------------
(***************************************************************************)
(* Section13/schedule2.py: records kept in a shelve.Shelf, the process-wide *)
(* store binding DbRecord.__db, the lazily resolved relationships of Event  *)
(* and the loader load_db.                                                  *)
(*                                                                          *)
(* A Python dict is a TLA+ function whose DOMAIN is its set of keys.  An    *)
(* instance is [cls |-> class name, d |-> its __dict__].  A shelf holds     *)
(* pickled values, so every read of a shelf yields a fresh instance.        *)
(***************************************************************************)
EXTENDS Integers, Sequences, FiniteSets, TLC

VARIABLES
    db,      \* DbRecord._DbRecord__db: None or the object bound by set_db
    shelf,   \* contents of every shelve.Shelf: shelf[s] is a dict key -> instance
    objs,    \* the instances the caller holds, in order of creation
    nlists,  \* nlists[i]: number of list objects the accesses of objs[i].speakers created
    feed,    \* the raw document osconfeed.load() returns in SpecLoad; in Spec each
             \* load_db call draws its document from SampleFeeds
    lastSet, \* history: the argument of the latest set_db call, None before any
    failed,  \* history: <<op, arg>> of the fetch, venue or speakers call that raised
             \* and that the caller may retry: kept over set_db and load_db, <<>>
             \* after any other call
    ret      \* what the last call did: its outcome and the store reads it made

vars == <<db, shelf, objs, nlists, feed, lastSet, failed, ret>>

\* ------------------------------------------------------------------ bounds
\* Number of instances the caller keeps alive at once.
MaxObjs == 2
\* Number of raw records in one raw document (SpecLoad).
MaxRecs == 2

\* ------------------------------------------------------- module constants
DB_NAME == "data/schedule2_db"
None == "None"
\* The shelves that can be opened, and the objects set_db may be handed.
Shelves == {"shelf1", "shelf2"}
Refs == Shelves \cup {None, DB_NAME}

\* ---------------------------------------------------------------- strings
Digits == "0123456789"
LowerCase == "abcdefghijklmnopqrstuvwxyz"
UpperCase == "ABCDEFGHIJKLMNOPQRSTUVWXYZ"

Char(s, i) == SubSeq(s, i, i)

\* str(n) for an int n >= 0, as '{}'.format(n) renders it.
RECURSIVE IntStr(_)
IntStr(n) == IF n < 10 THEN Char(Digits, n + 1)
             ELSE IntStr(n \div 10) \o Char(Digits, (n % 10) + 1)

\* Position of the one-character string c in the alphabet s, 0 when absent.
Index(s, c) == IF \E i \in 1..Len(s) : Char(s, i) = c
               THEN CHOOSE i \in 1..Len(s) : Char(s, i) = c
               ELSE 0

\* str.upper() and str.lower() of one character, as tables over the letters.
UpperMap == [c \in {Char(LowerCase, i) : i \in 1..Len(LowerCase)} |->
                Char(UpperCase, Index(LowerCase, c))]
LowerMap == [c \in {Char(UpperCase, i) : i \in 1..Len(UpperCase)} |->
                Char(LowerCase, Index(UpperCase, c))]
upper(c) == IF c \in DOMAIN UpperMap THEN UpperMap[c] ELSE c
lower(c) == IF c \in DOMAIN LowerMap THEN LowerMap[c] ELSE c

RECURSIVE LowerAll(_)
LowerAll(s) == IF Len(s) = 0 THEN "" ELSE lower(Char(s, 1)) \o LowerAll(SubSeq(s, 2, Len(s)))

\* str.capitalize(): first character upper-cased, the rest lower-cased.
capitalize(s) == IF Len(s) = 0 THEN ""
                 ELSE upper(Char(s, 1)) \o LowerAll(SubSeq(s, 2, Len(s)))

\* repr() of a str without quotes or escapes in it.
StrRepr(s) == "'" \o s \o "'"

\* ------------------------------------------------------------------ dicts
EmptyDict == <<>>
\* d[k] = v
SetItem(d, k, v) == (k :> v) @@ d
\* dict.update(other)
Update(d, other) == other @@ d


\* ---------------------------------------------------------------- classes
\* class Record / class DbRecord(Record) / class Event(DbRecord)
Classes == {"Record", "DbRecord", "Event"}
Bases(cls) == CASE cls = "Event" -> {"Event", "DbRecord", "Record", "object"}
                [] cls = "DbRecord" -> {"DbRecord", "Record", "object"}
                [] cls = "Record" -> {"Record", "object"}
                [] cls = "MissingDatabaseError" -> {"MissingDatabaseError", "RuntimeError", "object"}
                [] OTHER -> {"object"}
issubclass(cls, base) == base \in Bases(cls)
isinstance(obj, base) == issubclass(obj.cls, base)
\* The variants fetch, set_db and get_db can be called on.
DbVariants == {c \in Classes : issubclass(c, "DbRecord")}

\* Record.__init__: the keyword arguments become the instance's __dict__.
Record_init(cls, kwargs) == [cls |-> cls, d |-> Update(EmptyDict, kwargs)]

hasattr(self, name) == name \in DOMAIN self.d

\* == of two lists of records fetched from a shelf (plain DbRecord instances).
ListEq(a, b) == /\ Len(a) = Len(b)
                /\ \A i \in 1..Len(a) : a[i].d = b[i].d

\* == of two __dict__s: same keys, equal values.  A cached speakers list is
\* compared as Python compares lists, element by element.
DictEq(d1, d2) ==
    /\ DOMAIN d1 = DOMAIN d2
    /\ \A k \in DOMAIN d1 :
          IF k = "_speaker_objs" THEN ListEq(d1[k].items, d2[k].items)
                                 ELSE d1[k] = d2[k]

\* Record.__eq__(self, other): "True", "False" or "NotImplemented"
Record_eq(self, other) ==
    IF isinstance(other, "Record")
    THEN IF DictEq(self.d, other.d) THEN "True" ELSE "False"
    ELSE "NotImplemented"

\* self == other: Record.__eq__, then the reflected call, then identity.
PyEq(self, other, same) ==
    IF Record_eq(self, other) # "NotImplemented" THEN Record_eq(self, other)
    ELSE IF Record_eq(other, self) # "NotImplemented" THEN Record_eq(other, self)
    ELSE IF same THEN "True" ELSE "False"

\* ------------------------------------------------------- DbRecord, fetch
Ok(v) == [exc |-> "none", msg |-> "", val |-> v]
Raise(e, m) == [exc |-> e, msg |-> m, val |-> None]

\* DbRecord.get_db()
get_db == db

\* db[ident] for the object db bound by set_db.
Subscript(ref, ident) ==
    IF ref = None THEN Raise("TypeError", "'NoneType' object is not subscriptable")
    ELSE IF ref \notin Shelves THEN Raise("TypeError", "string indices must be integers")
    ELSE IF ident \notin DOMAIN shelf[ref] THEN Raise("KeyError", ident)
    ELSE Ok(shelf[ref][ident])

\* The reads of a shelf that db[ident] makes.
StoreReads(ref, ident) == IF ref \in Shelves THEN << <<ref, ident>> >> ELSE <<>>

MissingDatabaseMsg(cls) == "database not set; call '" \o cls \o ".set_db(my_db)'"

\* Mutant: every TypeError becomes MissingDatabaseError, `db is None` unchecked.
DbRecord_fetch_unchecked(cls, ident) ==
    LET r == Subscript(get_db, ident)
    IN IF r.exc = "TypeError"
       THEN Raise("MissingDatabaseError", MissingDatabaseMsg(cls))
       ELSE r

\* DbRecord.fetch(cls, ident)
DbRecord_fetch(cls, ident) ==
    LET dbv == get_db
        r == Subscript(dbv, ident)
    IN IF r.exc = "TypeError"
       THEN IF dbv = None THEN Raise("MissingDatabaseError", MissingDatabaseMsg(cls))
                          ELSE r
       ELSE r

\* DbRecord.__repr__ / object.__repr__ (the address is left out)
object_repr(self) == "<" \o self.cls \o " object>"
DbRecord_repr(self) ==
    IF hasattr(self, "serial")
    THEN "<" \o self.cls \o " serial=" \o StrRepr(self.d["serial"]) \o ">"
    ELSE object_repr(self)

\* ------------------------------------------------------------------ Event
\* Event.__repr__
Event_repr(self) ==
    IF hasattr(self, "name")
    THEN "<" \o self.cls \o " " \o StrRepr(self.d["name"]) \o ">"
    ELSE DbRecord_repr(self)

repr(self) == IF isinstance(self, "Event") THEN Event_repr(self)
              ELSE IF isinstance(self, "DbRecord") THEN DbRecord_repr(self)
              ELSE object_repr(self)

\* Event.venue: [exc, msg, val, calls, reads]
Event_venue(self) ==
    IF ~hasattr(self, "venue_serial")
    THEN [exc |-> "AttributeError", msg |-> "venue_serial", val |-> None,
          calls |-> <<>>, reads |-> <<>>]
    ELSE LET key == "venue." \o IntStr(self.d["venue_serial"])
             r == DbRecord_fetch(self.cls, key)
         IN [exc |-> r.exc, msg |-> r.msg, val |-> r.val,
             calls |-> <<key>>, reads |-> StoreReads(get_db, key)]

\* Mutant: each fetched record is put in front of the list.
RECURSIVE FetchSpeakers_reversed(_, _, _, _, _)
FetchSpeakers_reversed(cls, spkr_serials, acc, calls, reads) ==
    IF Len(spkr_serials) = 0
    THEN [exc |-> "none", msg |-> "", val |-> acc, calls |-> calls, reads |-> reads]
    ELSE LET key == "speaker." \o IntStr(Head(spkr_serials))
             r == DbRecord_fetch(cls, key)
             calls2 == Append(calls, key)
             reads2 == reads \o StoreReads(get_db, key)
         IN IF r.exc # "none"
            THEN [exc |-> r.exc, msg |-> r.msg, val |-> None,
                  calls |-> calls2, reads |-> reads2]
            ELSE FetchSpeakers_reversed(cls, Tail(spkr_serials), <<r.val>> \o acc,
                                        calls2, reads2)

\* [fetch('speaker.{}'.format(key)) for key in spkr_serials]: the records
\* fetched so far (acc), the fetch calls and the store reads made, up to and
\* including the first fetch that raises.
RECURSIVE FetchSpeakers(_, _, _, _, _)
FetchSpeakers(cls, spkr_serials, acc, calls, reads) ==
    IF Len(spkr_serials) = 0
    THEN [exc |-> "none", msg |-> "", val |-> acc, calls |-> calls, reads |-> reads]
    ELSE LET key == "speaker." \o IntStr(Head(spkr_serials))
             r == DbRecord_fetch(cls, key)
             calls2 == Append(calls, key)
             reads2 == reads \o StoreReads(get_db, key)
         IN IF r.exc # "none"
            THEN [exc |-> r.exc, msg |-> r.msg, val |-> None,
                  calls |-> calls2, reads |-> reads2]
            ELSE FetchSpeakers(cls, Tail(spkr_serials), Append(acc, r.val), calls2, reads2)

\* Mutant: no hasattr test, the list is resolved again on every access.
Event_speakers_uncached(self, i) ==
    IF "speakers" \notin DOMAIN self.d
    THEN [exc |-> "KeyError", msg |-> "speakers", val |-> None,
          calls |-> <<>>, reads |-> <<>>, new |-> self]
    ELSE LET r == FetchSpeakers(self.cls, self.d["speakers"], <<>>, <<>>, <<>>)
             lst == [id |-> <<i, nlists[i] + 1>>, items |-> r.val]
         IN IF r.exc # "none"
            THEN [exc |-> r.exc, msg |-> r.msg, val |-> None,
                  calls |-> r.calls, reads |-> r.reads, new |-> self]
            ELSE [exc |-> "none", msg |-> "", val |-> lst,
                  calls |-> r.calls, reads |-> r.reads,
                  new |-> [self EXCEPT !.d = SetItem(self.d, "_speaker_objs", lst)]]

\* Mutant: the serials are popped off the raw speakers field as they are fetched.
Event_speakers_consuming(self, i) ==
    IF ~hasattr(self, "_speaker_objs")
    THEN IF "speakers" \notin DOMAIN self.d
         THEN [exc |-> "KeyError", msg |-> "speakers", val |-> None,
               calls |-> <<>>, reads |-> <<>>, new |-> self]
         ELSE LET r == FetchSpeakers(self.cls, self.d["speakers"], <<>>, <<>>, <<>>)
                  lst == [id |-> <<i, nlists[i] + 1>>, items |-> r.val]
              IN IF r.exc # "none"
                 THEN [exc |-> r.exc, msg |-> r.msg, val |-> None,
                       calls |-> r.calls, reads |-> r.reads, new |-> self]
                 ELSE [exc |-> "none", msg |-> "", val |-> lst,
                       calls |-> r.calls, reads |-> r.reads,
                       new |-> [self EXCEPT !.d = SetItem(SetItem(self.d, "_speaker_objs", lst),
                                                          "speakers", <<>>)]]
    ELSE [exc |-> "none", msg |-> "", val |-> self.d["_speaker_objs"],
          calls |-> <<>>, reads |-> <<>>, new |-> self]

\* Mutant: self._speaker_objs = [] first, then one append per fetch, so that a
\* fetch that raises leaves the records fetched so far as the cache.
Event_speakers_partial(self, i) ==
    IF ~hasattr(self, "_speaker_objs")
    THEN IF "speakers" \notin DOMAIN self.d
         THEN [exc |-> "KeyError", msg |-> "speakers", val |-> None,
               calls |-> <<>>, reads |-> <<>>, new |-> self]
         ELSE LET r == FetchSpeakers(self.cls, self.d["speakers"], <<>>, <<>>, <<>>)
                  lst == [id |-> <<i, nlists[i] + 1>>, items |-> r.val]
                  part == [id |-> <<i, nlists[i] + 1>>,
                           items |-> [n \in 1..(Len(r.calls) - 1) |-> shelf[db][r.calls[n]]]]
              IN IF r.exc # "none"
                 THEN [exc |-> r.exc, msg |-> r.msg, val |-> None,
                       calls |-> r.calls, reads |-> r.reads,
                       new |-> [self EXCEPT !.d = SetItem(self.d, "_speaker_objs", part)]]
                 ELSE [exc |-> "none", msg |-> "", val |-> lst,
                       calls |-> r.calls, reads |-> r.reads,
                       new |-> [self EXCEPT !.d = SetItem(self.d, "_speaker_objs", lst)]]
    ELSE [exc |-> "none", msg |-> "", val |-> self.d["_speaker_objs"],
          calls |-> <<>>, reads |-> <<>>, new |-> self]

\* Event.speakers on self = objs[i]: the outcome, and self afterwards (new).
\* A list object is identified by the instance and the access that created it.
Event_speakers(self, i) ==
    IF ~hasattr(self, "_speaker_objs")
    THEN IF "speakers" \notin DOMAIN self.d
         THEN [exc |-> "KeyError", msg |-> "speakers", val |-> None,
               calls |-> <<>>, reads |-> <<>>, new |-> self]
         ELSE LET r == FetchSpeakers(self.cls, self.d["speakers"], <<>>, <<>>, <<>>)
                  lst == [id |-> <<i, nlists[i] + 1>>, items |-> r.val]
              IN IF r.exc # "none"
                 THEN [exc |-> r.exc, msg |-> r.msg, val |-> None,
                       calls |-> r.calls, reads |-> r.reads, new |-> self]
                 ELSE [exc |-> "none", msg |-> "", val |-> lst,
                       calls |-> r.calls, reads |-> r.reads,
                       new |-> [self EXCEPT !.d = SetItem(self.d, "_speaker_objs", lst)]]
    ELSE [exc |-> "none", msg |-> "", val |-> self.d["_speaker_objs"],
          calls |-> <<>>, reads |-> <<>>, new |-> self]

\* ---------------------------------------------------------------- load_db
\* globals() of the module when load_db runs: name -> kind of object.
globals == [warnings |-> "module", inspect |-> "module", osconfeed |-> "module",
            shelve |-> "module", DB_NAME |-> "str", CONFERENCE |-> "str",
            Record |-> "class", MissingDatabaseError |-> "class",
            DbRecord |-> "class", Event |-> "class",
            load_db |-> "function", db |-> "Shelf"]
\* globals().get(name, default): objects are denoted by their names.
globals_get(name, default) == IF name \in DOMAIN globals THEN name ELSE default
isclass(obj) == obj \in DOMAIN globals /\ globals[obj] = "class"

\* Mutant: the collection name is used as it is.
RecordType_whole(collection) == collection

\* collection[:-1]
RecordType(collection) == SubSeq(collection, 1, Len(collection) - 1)

\* Mutant: any class found in globals() is used, DbRecord subtype or not.
Factory_anyclass(collection) ==
    LET cls == globals_get(capitalize(RecordType(collection)), "DbRecord")
    IN IF isclass(cls) THEN cls ELSE "DbRecord"

\* The constructor load_db picks for a collection.
Factory(collection) ==
    LET record_type == RecordType(collection)
        cls_name == capitalize(record_type)
        cls == globals_get(cls_name, "DbRecord")
    IN IF isclass(cls) /\ issubclass(cls, "DbRecord") THEN cls ELSE "DbRecord"

\* '{}.{}'.format(record_type, record['serial'])
Key(record_type, serial) == record_type \o "." \o IntStr(serial)

\* Mutant: db.setdefault(key, obj), an existing entry is kept.
Shelf_setdefault(store, key, obj) ==
    IF key \in DOMAIN store THEN store ELSE SetItem(store, key, obj)

\* db[key] = obj on the contents of a shelf
Shelf_setitem(store, key, obj) == SetItem(store, key, obj)

\* for record in rec_list: ...   st is [store, written, exc]; written logs
\* every db[key] = ... with the collection it came from.
RECURSIVE LoadRecords(_, _, _, _)
LoadRecords(st, collection, factory, rec_list) ==
    IF Len(rec_list) = 0 THEN st
    ELSE LET record == Head(rec_list)
             record_type == RecordType(collection)
         IN IF "serial" \notin DOMAIN record
            THEN [st EXCEPT !.exc = "KeyError"]
            ELSE LET key == Key(record_type, record["serial"])
                     record2 == SetItem(record, "serial", key)
                     obj == Record_init(factory, record2)
                 IN LoadRecords([st EXCEPT !.store = Shelf_setitem(st.store, key, obj),
                                           !.written = Append(st.written,
                                               [collection |-> collection, key |-> key,
                                                obj |-> obj])],
                                collection, factory, Tail(rec_list))

\* for collection, rec_list in raw_data['Schedule'].items(): ...
RECURSIVE LoadCollections(_, _)
LoadCollections(st, schedule) ==
    IF Len(schedule) = 0 \/ st.exc # "none" THEN st
    ELSE LET collection == Head(schedule).collection
             rec_list == Head(schedule).rec_list
             st2 == LoadRecords(st, collection, Factory(collection), rec_list)
         IN LoadCollections(st2, Tail(schedule))

\* load_db(db) on the contents `store` of the shelf db, with raw_data the
\* document osconfeed.load() returns.
load_db(store, raw_data) ==
    LoadCollections([store |-> store, written |-> <<>>, exc |-> "none"],
                    raw_data["Schedule"])

\* ------------------------------------------------------------ raw documents
\* The schedule of the module's doctest (event 33950, venue 1449, speakers
\* 3471 and 5199), with one more event, which names a venue that does not
\* exist and the same speaker twice.
Bugs == [serial |-> 33950, name |-> "There *Will* Be Bugs",
         venue_serial |-> 1449, speakers |-> <<3471, 5199>>]
Twice == [serial |-> 33951, name |-> "Twice", venue_serial |-> 1450,
          speakers |-> <<3471, 3471>>]
FullFeed == [Schedule |-> <<
    [collection |-> "events", rec_list |-> <<Bugs, Twice>>],
    [collection |-> "venues", rec_list |-> <<[serial |-> 1449, name |-> "Portland 251"]>>],
    [collection |-> "speakers",
     rec_list |-> <<[serial |-> 3471, name |-> "Anna Martelli Ravenscroft"],
                    [serial |-> 5199, name |-> "Alex Martelli"]>>] >>]
\* An earlier edition of the feed: one event, one speaker under another name.
OldFeed == [Schedule |-> <<
    [collection |-> "events", rec_list |-> <<Bugs>>],
    [collection |-> "speakers",
     rec_list |-> <<[serial |-> 3471, name |-> "Anna Martelli"]>>] >>]
SampleFeeds == {FullFeed, OldFeed}
\* The loads of Spec: shelf1 is the database of the current edition, shelf2
\* the database of the earlier one.
LoadInputs == {<<"shelf1", FullFeed>>, <<"shelf2", OldFeed>>}
FetchKeys == {"event.33950", "event.33951"}

\* Every raw document of at most MaxRecs records over these names and fields.
CollectionNames == {"events", "venues", "speakers", "records", "eventz"}
RawRecords == {[serial |-> n, name |-> a] : n \in {7, 12}, a \in {"A", "B"}}
                  \cup {[name |-> "A"]}
RawEntries == {[collection |-> c, record |-> r] : c \in CollectionNames, r \in RawRecords}

\* The entries of a JSON object grouped by collection, in order of first appearance.
RECURSIVE Group(_, _)
Group(flat, acc) ==
    IF Len(flat) = 0 THEN acc
    ELSE LET e == Head(flat)
             at == {i \in 1..Len(acc) : acc[i].collection = e.collection}
         IN IF at = {}
            THEN Group(Tail(flat), Append(acc, [collection |-> e.collection,
                                                rec_list |-> <<e.record>>]))
            ELSE LET i == CHOOSE j \in at : TRUE
                 IN Group(Tail(flat),
                          [acc EXCEPT ![i].rec_list = Append(@, e.record)])
AllFeeds == {[Schedule |-> Group(f, <<>>)] :
                f \in UNION {[1..n -> RawEntries] : n \in 0..MaxRecs}}

\* ----------------------------------------------------------------- actions
NoCall == [op |-> "init"]
Call(op, cls, arg, out, cached) ==
    [op |-> op, cls |-> cls, arg |-> arg, exc |-> out.exc, msg |-> out.msg,
     val |-> out.val, calls |-> out.calls, reads |-> out.reads, cached |-> cached,
     retry |-> (failed = <<op, arg>>)]
Failed(op, arg, exc) == IF exc # "none" THEN <<op, arg>> ELSE <<>>

\* Mutant: `if db: DbRecord.__db = db`, so that None does not unbind.
set_db_truthy(ref) == IF ref = None THEN db ELSE ref

\* DbRecord.__db after set_db(ref)
set_db(ref) == ref

\* <variant>.set_db(ref)
SetDb(cls, ref) ==
    /\ db' = set_db(ref)
    /\ lastSet' = ref
    /\ ret' = [op |-> "set_db", arg |-> ref, exc |-> "none"]
    /\ UNCHANGED <<shelf, objs, nlists, feed, failed>>

\* <variant>.fetch(ident); the caller keeps the instance while it has room.
Fetch(cls, ident) ==
    LET r == DbRecord_fetch(cls, ident)
        out == [exc |-> r.exc, msg |-> r.msg, val |-> r.val,
                calls |-> <<ident>>, reads |-> StoreReads(get_db, ident)]
    IN /\ ret' = Call("fetch", cls, ident, out, FALSE)
       /\ IF r.exc = "none" /\ Len(objs) < MaxObjs
          THEN objs' = Append(objs, r.val) /\ nlists' = Append(nlists, 0)
          ELSE UNCHANGED <<objs, nlists>>
       /\ failed' = Failed("fetch", ident, r.exc)
       /\ UNCHANGED <<db, shelf, feed, lastSet>>

\* objs[i].venue
Venue(i) ==
    /\ isinstance(objs[i], "Event")
    /\ ret' = Call("venue", objs[i].cls, i, Event_venue(objs[i]), FALSE)
    /\ failed' = Failed("venue", i, Event_venue(objs[i]).exc)
    /\ UNCHANGED <<db, shelf, objs, nlists, feed, lastSet>>

\* objs[i].speakers
Speakers(i) ==
    /\ isinstance(objs[i], "Event")
    /\ LET r == Event_speakers(objs[i], i)
       IN /\ ret' = Call("speakers", objs[i].cls, i, r, hasattr(objs[i], "_speaker_objs"))
          /\ objs' = [objs EXCEPT ![i] = r.new]
          /\ nlists' = IF r.new # objs[i] THEN [nlists EXCEPT ![i] = @ + 1] ELSE nlists
          /\ failed' = Failed("speakers", i, r.exc)
    /\ UNCHANGED <<db, shelf, feed, lastSet>>

\* load_db(s) for an open shelf s, osconfeed.load() returning raw_data
LoadDb(s, raw_data) ==
    LET st == load_db(shelf[s], raw_data)
    IN /\ shelf' = [shelf EXCEPT ![s] = st.store]
       /\ ret' = [op |-> "load_db", arg |-> s, raw |-> raw_data, before |-> shelf[s],
                  exc |-> st.exc, written |-> st.written]
       /\ UNCHANGED <<db, objs, nlists, feed, lastSet, failed>>

\* objs[i] == objs[j]
Eq(i, j) ==
    /\ ret' = [op |-> "eq", arg |-> <<i, j>>, exc |-> "none",
               val |-> PyEq(objs[i], objs[j], i = j)]
    /\ failed' = <<>>
    /\ UNCHANGED <<db, shelf, objs, nlists, feed, lastSet>>

\* repr(objs[i])
Repr(i) ==
    /\ ret' = [op |-> "repr", arg |-> i, exc |-> "none", val |-> repr(objs[i])]
    /\ failed' = <<>>
    /\ UNCHANGED <<db, shelf, objs, nlists, feed, lastSet>>

\* cls(**kwargs); the caller keeps the instance.
Construct(cls, kwargs) ==
    /\ Len(objs) < MaxObjs
    /\ objs' = Append(objs, Record_init(cls, kwargs))
    /\ nlists' = Append(nlists, 0)
    /\ ret' = [op |-> "new", arg |-> Len(objs) + 1, exc |-> "none"]
    /\ failed' = <<>>
    /\ UNCHANGED <<db, shelf, feed, lastSet>>

Init ==
    /\ db = None
    /\ shelf = [s \in Shelves |-> EmptyDict]
    /\ objs = <<>>
    /\ nlists = <<>>
    /\ feed = FullFeed
    /\ lastSet = None
    /\ failed = <<>>
    /\ ret = NoCall

Next ==
    \/ \E cls \in DbVariants, ref \in Refs : SetDb(cls, ref)
    \/ \E cls \in DbVariants, ident \in FetchKeys : Fetch(cls, ident)
    \/ \E i \in DOMAIN objs : Venue(i)
    \/ \E i \in DOMAIN objs : Speakers(i)
    \/ \E in \in LoadInputs : LoadDb(in[1], in[2])
    \/ \E i, j \in DOMAIN objs : i < j /\ Eq(i, j)
    \/ \E i \in DOMAIN objs : Repr(i)

Spec == Init /\ [][Next]_vars

\* SpecLoad: load_db alone, over every raw document of AllFeeds.
InitLoad ==
    /\ db = None
    /\ shelf = [s \in Shelves |-> EmptyDict]
    /\ objs = <<>>
    /\ nlists = <<>>
    /\ feed \in AllFeeds
    /\ lastSet = None
    /\ failed = <<>>
    /\ ret = NoCall

NextLoad == \E s \in Shelves : LoadDb(s, feed)

SpecLoad == InitLoad /\ [][NextLoad]_vars

\* SpecEq: instances of the three classes built from the same field mappings.
FieldMaps == {EmptyDict, [name |-> "A"], [name |-> "B"],
              [serial |-> "venue.1449"], [serial |-> "venue.1449", name |-> "A"]}

NextEq ==
    \/ \E cls \in Classes, kwargs \in FieldMaps : Construct(cls, kwargs)
    \/ \E i, j \in DOMAIN objs : Eq(i, j)
    \/ \E i \in DOMAIN objs : Repr(i)

SpecEq == Init /\ [][NextEq]_vars

\* ------------------------------------------------------------------ claims
\* Helpers of the properties below, written from the claims' words.
SameFields(a, b) == /\ DOMAIN a.d = DOMAIN b.d
                    /\ \A k \in DOMAIN a.d : a.d[k] = b.d[k]
DerivedKey(collection, serial) ==
    SubSeq(collection, 1, Len(collection) - 1) \o "." \o ToString(serial)
SpeakerKey(fragment) == "speaker." \o ToString(fragment)
\* The positions <<collection index, record index>> of the raw records.
Positions(raw) == UNION {{<<a, b>> : b \in 1..Len(raw.Schedule[a].rec_list)} :
                            a \in 1..Len(raw.Schedule)}
CollectionAt(raw, p) == raw.Schedule[p[1]].collection
RecordAt(raw, p) == raw.Schedule[p[1]].rec_list[p[2]]
KeyAt(raw, p) == DerivedKey(CollectionAt(raw, p), RecordAt(raw, p)["serial"])
Later(p, q) == q[1] > p[1] \/ (q[1] = p[1] /\ q[2] > p[2])
\* The fields of the record built from raw record r stored under key.
Built(r, key) == [k \in DOMAIN r |-> IF k = "serial" THEN key ELSE r[k]]
HasCache(obj) == "_speaker_objs" \in DOMAIN obj.d

\* C1: for every field mapping f and classes A, B of {Record, DbRecord, Event},
\* A(**f) == B(**f) is true when A and B are the same class and false when
\* they differ.
C1_EqualIffSameClass ==
    ret.op = "eq" =>
        LET a == objs[ret.arg[1]]
            b == objs[ret.arg[2]]
        IN SameFields(a, b) => (ret.val = "True" <=> a.cls = b.cls)

\* C2: a fetch (called directly or through Event.venue / Event.speakers)
\* raises MissingDatabaseError naming the variant it was called on exactly
\* when no store is bound; with a store bound the store's own KeyError or
\* TypeError reaches the caller unchanged.
C2_FetchErrors ==
    (ret.op \in {"fetch", "venue", "speakers"} /\ Len(ret.calls) > 0) =>
        LET key == ret.calls[Len(ret.calls)]
        IN /\ db = None =>
                /\ ret.exc = "MissingDatabaseError"
                /\ ret.msg = "database not set; call '" \o ret.cls \o ".set_db(my_db)'"
           /\ db # None =>
                /\ ret.exc # "MissingDatabaseError"
                /\ ret.exc = Subscript(db, key).exc
                /\ ret.msg = Subscript(db, key).msg
           /\ db \in Shelves =>
                ret.exc = IF key \in DOMAIN shelf[db] THEN "none" ELSE "KeyError"
           /\ (db # None /\ db \notin Shelves) => ret.exc = "TypeError"
C2_Witness ==
    /\ ret.op = "speakers" /\ ret.exc = "MissingDatabaseError" /\ ret.cls = "Event"
    /\ lastSet = None /\ \E s \in Shelves : DOMAIN shelf[s] # {}

\* C3: get_db returns the store passed to the most recent set_db, None if
\* set_db was never called; no other operation changes the binding.
C3_Binding == get_db = lastSet
C3_Witness ==
    /\ lastSet = "shelf2" /\ ret.op = "speakers" /\ ret.exc = "none"
    /\ DOMAIN shelf["shelf1"] # {}

\* C4: every entry load_db writes has the key "<collection without its last
\* character>.<original serial>" of some raw record, the stored record's
\* serial is the key it is stored under, and load_db writes no other key.
C4_Keys ==
    ret.op = "load_db" =>
        /\ \A n \in 1..Len(ret.written) :
              LET w == ret.written[n]
              IN /\ \E p \in Positions(ret.raw) :
                       /\ "serial" \in DOMAIN RecordAt(ret.raw, p)
                       /\ CollectionAt(ret.raw, p) = w.collection
                       /\ w.key = KeyAt(ret.raw, p)
                 /\ w.obj.d["serial"] = w.key
                 /\ w.key \in DOMAIN shelf[ret.arg]
                 /\ shelf[ret.arg][w.key].d["serial"] = w.key
        /\ \A k \in DOMAIN shelf[ret.arg] :
              \/ \E n \in 1..Len(ret.written) : ret.written[n].key = k
              \/ k \in DOMAIN ret.before /\ shelf[ret.arg][k] = ret.before[k]
C4_Witness ==
    /\ ret.op = "load_db" /\ Len(ret.written) = 2
    /\ DOMAIN shelf[ret.arg] = {"event.7", "speaker.12"}

C6_Expected == [events |-> "Event", eventz |-> "Event", venues |-> "DbRecord",
                speakers |-> "DbRecord", records |-> "DbRecord"]
C6_Variant ==
    ret.op = "load_db" =>
        \A n \in 1..Len(ret.written) :
            LET w == ret.written[n]
            IN /\ w.obj.cls = C6_Expected[w.collection]
               /\ shelf[ret.arg][w.key].cls = C6_Expected[w.collection]
C6_Witness ==
    /\ ret.op = "load_db"
    /\ \E n, m \in 1..Len(ret.written) :
          /\ ret.written[n].collection = "records"
          /\ ret.written[m].collection = "events"

\* C7: with a store bound that holds every referenced speaker record, the
\* first access of event.speakers returns one record per raw fragment, the
\* i-th being the store's record at "speaker." + the i-th fragment (order
\* kept, duplicates kept), and reads the store once per fragment in that order.
C7_FirstAccess ==
    LET raw == objs[ret.arg].d["speakers"]
    IN (/\ ret.op = "speakers" /\ ~ret.cached
        /\ db \in Shelves
        /\ \A n \in 1..Len(raw) : SpeakerKey(raw[n]) \in DOMAIN shelf[db])
       => /\ ret.exc = "none"
          /\ Len(ret.val.items) = Len(raw)
          /\ \A n \in 1..Len(raw) : ret.val.items[n] = shelf[db][SpeakerKey(raw[n])]
          /\ ret.reads = [n \in 1..Len(raw) |-> <<db, SpeakerKey(raw[n])>>]
C7_Witness ==
    /\ ret.op = "speakers" /\ ~ret.cached /\ ret.exc = "none"
    /\ Len(ret.val.items) = 2 /\ ret.val.items[1] # ret.val.items[2]
    /\ \E j \in DOMAIN objs : HasCache(objs[j]) /\ objs[j].d["speakers"] = <<3471, 3471>>

\* C8: once event.speakers has been accessed successfully on an instance,
\* every later step keeps that instance's cached list, and every later access
\* on it returns that same list object and reads no store, whatever happened
\* in between.
C8_Memoized ==
    [][\A i \in DOMAIN objs :
          HasCache(objs[i]) =>
             /\ i \in DOMAIN objs'
             /\ HasCache(objs'[i])
             /\ objs'[i].d["_speaker_objs"] = objs[i].d["_speaker_objs"]
             /\ (ret'.op = "speakers" /\ ret'.arg = i) =>
                   /\ ret'.exc = "none"
                   /\ ret'.val = objs[i].d["_speaker_objs"]
                   /\ ret'.calls = <<>>
                   /\ ret'.reads = <<>>]_vars
C8_Witness ==
    /\ ret.op = "speakers" /\ ret.cached /\ ret.exc = "none"
    /\ db = "shelf1" /\ "speaker.3471" \in DOMAIN shelf[db]
    /\ Len(ret.val.items) = 2
    /\ ret.val.items[1] # shelf[db]["speaker.3471"]

\* C9 as claimed: no operation changes the field mapping of an existing
\* instance, and two instances that compare equal still compare equal after
\* any operation.
C9_NeverMutated ==
    [][/\ \A i \in DOMAIN objs : i \in DOMAIN objs' /\ SameFields(objs'[i], objs[i])
       /\ \A i, j \in DOMAIN objs :
             Record_eq(objs[i], objs[j]) = "True" => Record_eq(objs'[i], objs'[j]) = "True"]_vars

\* C9 as amended: an operation keeps the class and every field of every
\* existing instance; the only change to a field mapping is the attribute
\* _speaker_objs added by the first successful access of speakers on that
\* instance; two instances that compare equal still compare equal after every
\* operation but such an access on one of them.
C9_OnlyCacheAdded ==
    [][/\ \A i \in DOMAIN objs :
             /\ i \in DOMAIN objs'
             /\ objs'[i].cls = objs[i].cls
             /\ \A k \in DOMAIN objs[i].d :
                   k \in DOMAIN objs'[i].d /\ objs'[i].d[k] = objs[i].d[k]
             /\ DOMAIN objs'[i].d # DOMAIN objs[i].d =>
                   /\ ret'.op = "speakers" /\ ret'.arg = i
                   /\ ~ret'.cached /\ ret'.exc = "none"
                   /\ DOMAIN objs'[i].d = DOMAIN objs[i].d \cup {"_speaker_objs"}
       /\ \A i, j \in DOMAIN objs :
             (/\ Record_eq(objs[i], objs[j]) = "True"
              /\ ~(/\ ret'.op = "speakers" /\ ret'.arg \in {i, j}
                   /\ ~ret'.cached /\ ret'.exc = "none"))
             => Record_eq(objs'[i], objs'[j]) = "True"]_vars
C9_Witness ==
    /\ ret.op = "speakers" /\ ~ret.cached /\ ret.exc = "none"
    /\ \E j \in DOMAIN objs :
          /\ ~HasCache(objs[j])
          /\ \A k \in DOMAIN objs[j].d : objs[ret.arg].d[k] = objs[j].d[k]
          /\ Record_eq(objs[ret.arg], objs[j]) = "False"

\* C10: a fetch, venue or speakers call that raises leaves the instances, the
\* stores and the binding as they were, with no speakers cache; and the same
\* call retried once a store holding the needed records is bound succeeds and
\* returns what the store holds, as a first call would.
C10_Recoverable ==
    [][/\ (ret'.op \in {"fetch", "venue", "speakers"} /\ ret'.exc # "none") =>
             /\ objs' = objs /\ shelf' = shelf /\ db' = db /\ nlists' = nlists
             /\ ret'.op = "speakers" => ~HasCache(objs'[ret'.arg])
       /\ (ret'.op = "fetch" /\ ret'.retry /\ db \in Shelves
              /\ ret'.arg \in DOMAIN shelf[db]) =>
             ret'.exc = "none" /\ ret'.val = shelf[db][ret'.arg]
       /\ (ret'.op = "venue" /\ ret'.retry /\ db \in Shelves
              /\ "venue." \o ToString(objs[ret'.arg].d["venue_serial"]) \in DOMAIN shelf[db]) =>
             /\ ret'.exc = "none"
             /\ ret'.val = shelf[db]["venue." \o ToString(objs[ret'.arg].d["venue_serial"])]
       /\ (ret'.op = "speakers" /\ ret'.retry /\ db \in Shelves
              /\ \A n \in 1..Len(objs[ret'.arg].d["speakers"]) :
                    SpeakerKey(objs[ret'.arg].d["speakers"][n]) \in DOMAIN shelf[db]) =>
             /\ ret'.exc = "none"
             /\ ret'.val.items = [n \in 1..Len(objs[ret'.arg].d["speakers"]) |->
                                    shelf[db][SpeakerKey(objs[ret'.arg].d["speakers"][n])]]
             /\ objs'[ret'.arg].d["_speaker_objs"] = ret'.val]_vars
C10_Witness ==
    /\ ret.op = "speakers" /\ ret.retry /\ ret.exc = "none"
    /\ Len(ret.val.items) = 2 /\ ret.val.items[1] # ret.val.items[2]
    /\ DOMAIN shelf["shelf2"] # {}
=============================================================================
